---- MODULE Spec2Model ----
(***************************************************************************)
(* Model of the TicTacToeGame engine (TicTacToeGame.ts): the game state,   *)
(* the roster `_players`, and the operations join, leave and applyMove;    *)
(* and of TicTacToeGameArea.handleCommand, which routes commands to the    *)
(* engine the area holds.                                                  *)
(* Every call is one step; `last` records the call and how it ended, and   *)
(* `pre` is the engine as it was when the call was made.                   *)
(***************************************************************************)
EXTENDS Integers, Sequences, FiniteSets, TLC

\* ---- bounds on the inputs offered to the engine ----
\* Spec: three callers, the first two cells of the board.
NumPlayers == 3
NumCells == 2
\* SpecBoard: two callers, the top row and one cell more.
NumBoardPlayers == 2
NumBoardCells == 4
\* SpecArea: two players sending commands, the first two cells of the board.
NumAreaPlayers == 2
NumAreaCells == 2

\* ---- program constants ----
BoardSize == 9
LineLength == 3
AntiDiagonalSum == 2
RosterCapacity == 2

\* Player identifiers are non-empty strings; `undefined` is the unset slot.
Undefined == "undefined"
Ids(n) == {ToString(i) : i \in 1..n}

\* The cells callers offer: the first n cells of the board, row by row.
Cells(n) == {<<i \div LineLength, i % LineLength>> : i \in 0..((IF n < BoardSize THEN n ELSE BoardSize) - 1)}

WAITING_TO_START == "WAITING_TO_START"
IN_PROGRESS == "IN_PROGRESS"
OVER == "OVER"

\* The messages of the errors the engine throws; OK is a call that returned.
OK == "OK"
PLAYER_NOT_IN_GAME_MESSAGE == "PLAYER_NOT_IN_GAME_MESSAGE"
GAME_NOT_IN_PROGRESS_MESSAGE == "GAME_NOT_IN_PROGRESS_MESSAGE"
MOVE_NOT_YOUR_TURN_MESSAGE == "MOVE_NOT_YOUR_TURN_MESSAGE"
BOARD_POSITION_NOT_EMPTY_MESSAGE == "BOARD_POSITION_NOT_EMPTY_MESSAGE"
GAME_FULL_MESSAGE == "GAME_FULL_MESSAGE"
PLAYER_ALREADY_IN_GAME_MESSAGE == "PLAYER_ALREADY_IN_GAME_MESSAGE"

\* The area's `_game` field: undefined, or the engine whose fields follow.
NO_GAME == "undefined"
ACTIVE == "TicTacToeGame"

\* What handleCommand throws when its catch block does not rethrow.
UNEXPECTED_ERROR == "An unexpected error occurred."
\* The imported message constant of the router's default case; the texts of
\* the imported constants are represented by their names.
INVALID_COMMAND_MESSAGE == "INVALID_COMMAND_MESSAGE"

VARIABLES status, x, o, moves, winner, players, last, pre, game, gameIdContains, history

vars == <<status, x, o, moves, winner, players, last, pre, game, gameIdContains, history>>
engine == <<status, x, o, moves, winner, players>>
\* The area's own fields: `_game`, the identifier of that game (as the set of
\* player identifiers that occur in it as substrings) and `_history`.
area == <<game, gameIdContains, history>>

\* The engine's fields as one value.
Snapshot == [status |-> status, x |-> x, o |-> o, moves |-> moves, winner |-> winner, players |-> players]

\* ---- helpers ----
InRoster(p, roster) == \E i \in 1..Len(roster) : roster[i] = p

\* Array.splice(index, 1) on the element equal to p.
RemovePlayer(roster, p) == SelectSeq(roster, LAMBDA q : q # p)

Occupied(ms, row, col) == \E i \in 1..Len(ms) : ms[i].row = row /\ ms[i].col = col

\* ---- construction ----
Init ==
    /\ status = WAITING_TO_START
    /\ x = Undefined
    /\ o = Undefined
    /\ moves = <<>>
    /\ winner = Undefined
    /\ players = <<>>
    /\ last = [op |-> "constructor", player |-> Undefined, err |-> OK]
    /\ pre = [status |-> WAITING_TO_START, x |-> Undefined, o |-> Undefined, moves |-> <<>>, winner |-> Undefined, players |-> <<>>]
    /\ game = ACTIVE
    /\ gameIdContains = {}
    /\ history = <<>>

\* ---- _checkForWin ----
\* filter(...).length is the number of indices of the moves that pass the test.
_checkForWin(ms, gamePiece, row, col) ==
    LET checkRow == Cardinality({i \in 1..Len(ms) : ms[i].row = row /\ ms[i].gamePiece = gamePiece}) = LineLength
        checkCol == Cardinality({i \in 1..Len(ms) : ms[i].col = col /\ ms[i].gamePiece = gamePiece}) = LineLength
        checkDiagonal1 ==
            /\ row = col
            /\ Cardinality({i \in 1..Len(ms) : ms[i].row = ms[i].col /\ ms[i].gamePiece = gamePiece}) = LineLength
        checkDiagonal2 ==
            /\ row + col = AntiDiagonalSum
            /\ Cardinality({i \in 1..Len(ms) : ms[i].row + ms[i].col = AntiDiagonalSum /\ ms[i].gamePiece = gamePiece}) = LineLength
    IN checkRow \/ checkCol \/ checkDiagonal1 \/ checkDiagonal2

\* ---- applyMove ----
\* applyMove's checks without the test for an occupied cell.
ApplyMoveError_NoOccupiedCheck(p, row, col) ==
    IF ~InRoster(p, players) THEN PLAYER_NOT_IN_GAME_MESSAGE
    ELSE IF x = Undefined \/ o = Undefined \/ status # IN_PROGRESS THEN GAME_NOT_IN_PROGRESS_MESSAGE
    ELSE IF p # x /\ p # o THEN MOVE_NOT_YOUR_TURN_MESSAGE
    ELSE OK

\* applyMove's checks with the status test left out of the second one.
ApplyMoveError_NoStatusCheck(p, row, col) ==
    IF ~InRoster(p, players) THEN PLAYER_NOT_IN_GAME_MESSAGE
    ELSE IF x = Undefined \/ o = Undefined THEN GAME_NOT_IN_PROGRESS_MESSAGE
    ELSE IF p # x /\ p # o THEN MOVE_NOT_YOUR_TURN_MESSAGE
    ELSE IF Occupied(moves, row, col) THEN BOARD_POSITION_NOT_EMPTY_MESSAGE
    ELSE OK

\* The checks of applyMove in the order the code makes them.
ApplyMoveError(p, row, col) ==
    IF ~InRoster(p, players) THEN PLAYER_NOT_IN_GAME_MESSAGE
    ELSE IF x = Undefined \/ o = Undefined \/ status # IN_PROGRESS THEN GAME_NOT_IN_PROGRESS_MESSAGE
    ELSE IF p # x /\ p # o THEN MOVE_NOT_YOUR_TURN_MESSAGE
    ELSE IF Occupied(moves, row, col) THEN BOARD_POSITION_NOT_EMPTY_MESSAGE
    ELSE OK

GamePiece(p) == IF p = x THEN "X" ELSE "O"

\* What applyMove does once its checks passed: the move is appended and the
\* board evaluated for a win or a tie.
RecordMove(p, row, col) ==
    LET gamePiece == GamePiece(p)
        updatedMoves == Append(moves, [gamePiece |-> gamePiece, row |-> row, col |-> col])
    IN /\ moves' = updatedMoves
       /\ IF _checkForWin(updatedMoves, gamePiece, row, col)
          THEN status' = OVER /\ winner' = p
          ELSE IF Len(updatedMoves) = BoardSize
               THEN status' = OVER /\ winner' = Undefined
               ELSE UNCHANGED <<status, winner>>
       /\ UNCHANGED <<x, o, players>>

\* applyMove that records the move before it tests whether the cell is taken.
applyMove_RecordsBeforeOccupiedCheck(p, row, col) ==
    LET err == ApplyMoveError(p, row, col)
        gamePiece == GamePiece(p)
        updatedMoves == Append(moves, [gamePiece |-> gamePiece, row |-> row, col |-> col])
    IN /\ pre' = Snapshot
       /\ last' = [op |-> "applyMove", player |-> p, row |-> row, col |-> col, err |-> err]
       /\ IF err = BOARD_POSITION_NOT_EMPTY_MESSAGE
          THEN moves' = updatedMoves /\ UNCHANGED <<status, x, o, winner, players>>
          ELSE IF err # OK
          THEN UNCHANGED engine
          ELSE RecordMove(p, row, col)

applyMove(p, row, col) ==
    LET err == ApplyMoveError(p, row, col)
    IN /\ pre' = Snapshot
       /\ last' = [op |-> "applyMove", player |-> p, row |-> row, col |-> col, err |-> err]
       /\ IF err # OK
          THEN UNCHANGED engine
          ELSE RecordMove(p, row, col)

\* ---- join ----
\* _join's checks with the capacity test off by one (> instead of >=).
JoinError_FullOffByOne(p) ==
    IF Len(players) > RosterCapacity THEN GAME_FULL_MESSAGE
    ELSE IF InRoster(p, players) THEN PLAYER_ALREADY_IN_GAME_MESSAGE
    ELSE OK

\* The checks of _join in the order the code makes them.
JoinError(p) ==
    IF Len(players) >= RosterCapacity THEN GAME_FULL_MESSAGE
    ELSE IF InRoster(p, players) THEN PLAYER_ALREADY_IN_GAME_MESSAGE
    ELSE OK

\* _join filling the O slot before the X slot.
_join_SlotsSwapped(p) ==
    /\ o' = IF o = Undefined THEN p ELSE o
    /\ x' = IF o = Undefined THEN x ELSE IF x = Undefined THEN p ELSE x
    /\ status' = IF x' # Undefined /\ o' # Undefined THEN IN_PROGRESS ELSE status
    /\ UNCHANGED <<moves, winner>>

\* The slot assignment and status update of _join, once its checks passed.
_join(p) ==
    /\ x' = IF x = Undefined THEN p ELSE x
    /\ o' = IF x = Undefined THEN o ELSE IF o = Undefined THEN p ELSE o
    /\ status' = IF x' # Undefined /\ o' # Undefined THEN IN_PROGRESS ELSE status
    /\ UNCHANGED <<moves, winner>>

\* Game.join: _join, then the player is appended to the roster.
join(p) ==
    LET err == JoinError(p)
    IN /\ pre' = Snapshot
       /\ last' = [op |-> "join", player |-> p, err |-> err]
       /\ IF err # OK
          THEN UNCHANGED engine
          ELSE _join(p) /\ players' = Append(players, p)

\* ---- leave ----
\* _leave without its roster check.
LeaveError_NoCheck(p) == OK

\* The check of _leave.
LeaveError(p) == IF ~InRoster(p, players) THEN PLAYER_NOT_IN_GAME_MESSAGE ELSE OK

\* _leave that resets the status whoever remains.
_leave_NoForfeit(p) ==
    LET remaining == RemovePlayer(players, p)
    IN /\ players' = remaining
       /\ status' = WAITING_TO_START
       /\ UNCHANGED <<x, o, moves, winner>>

\* _leave that counts the roster before removing the player.
_leave_CountBeforeSplice(p) ==
    LET remaining == RemovePlayer(players, p)
    IN /\ players' = remaining
       /\ IF Len(players) = 1
          THEN status' = OVER /\ winner' = players[1]
          ELSE status' = WAITING_TO_START /\ UNCHANGED winner
       /\ UNCHANGED <<x, o, moves>>

\* The roster update and status update of _leave, once its check passed.
_leave(p) ==
    LET remaining == RemovePlayer(players, p)
    IN /\ players' = remaining
       /\ IF Len(remaining) = 1
          THEN status' = OVER /\ winner' = remaining[1]
          ELSE status' = WAITING_TO_START /\ UNCHANGED winner
       /\ UNCHANGED <<x, o, moves>>

\* Game.leave: _leave, then the roster is filtered (the player is already gone).
leave(p) ==
    LET err == LeaveError(p)
    IN /\ pre' = Snapshot
       /\ last' = [op |-> "leave", player |-> p, err |-> err]
       /\ IF err # OK
          THEN UNCHANGED engine
          ELSE _leave(p)

\* ---- specification ----
Join == \E p \in Ids(NumPlayers) : join(p) /\ UNCHANGED area
Leave == \E p \in Ids(NumPlayers) : leave(p) /\ UNCHANGED area
ApplyMove == \E p \in Ids(NumPlayers) : \E c \in Cells(NumCells) : applyMove(p, c[1], c[2]) /\ UNCHANGED area

Next == Join \/ Leave \/ ApplyMove

Spec == Init /\ [][Next]_vars

\* The same engine, offered fewer callers and more of the board.
BoardJoin == \E p \in Ids(NumBoardPlayers) : join(p) /\ UNCHANGED area
BoardLeave == \E p \in Ids(NumBoardPlayers) : leave(p) /\ UNCHANGED area
BoardApplyMove == \E p \in Ids(NumBoardPlayers) : \E c \in Cells(NumBoardCells) : applyMove(p, c[1], c[2]) /\ UNCHANGED area

NextBoard == BoardJoin \/ BoardLeave \/ BoardApplyMove

SpecBoard == Init /\ [][NextBoard]_vars

\* One game played through: the callers of SpecBoard join and move, nobody leaves.
NextGame == BoardJoin \/ BoardApplyMove

SpecGame == Init /\ [][NextGame]_vars

\* ---- TicTacToeGameArea.handleCommand ----
\* The commands players send: the three the area knows and one it does not.
Commands(n) ==
    {[type |-> "JoinGame"], [type |-> "LeaveGame"], [type |-> "ViewingAreaUpdate"]}
    \cup {[type |-> "GameMove", row |-> c[1], col |-> c[2]] : c \in Cells(n)}

\* The value `new Error(message)` throws.
ErrorObject(message) == [type |-> "Error", message |-> message]

\* value === str for a string constant str: true only of a string equal to it.
StrictEqualsString(value, str) == value.type = "string" /\ value.message = str

\* handleCommand reaches a call of the engine: the area holds a game and the
\* guard of the command's case lets it through.
EngineCalled(command, p) ==
    /\ game # NO_GAME
    /\ \/ command.type = "JoinGame"
       \/ command.type = "LeaveGame" /\ p \in gameIdContains
       \/ command.type = "GameMove" /\ status = IN_PROGRESS

\* The message of the error thrown inside the try block, OK when none is.
TryBlockError(command, p) ==
    IF command.type = "JoinGame"
    THEN (IF game = NO_GAME THEN OK ELSE JoinError(p))
    ELSE IF command.type = "LeaveGame"
    THEN (IF game = NO_GAME \/ p \notin gameIdContains THEN PLAYER_NOT_IN_GAME_MESSAGE ELSE LeaveError(p))
    ELSE IF command.type = "GameMove"
    THEN (IF game = NO_GAME \/ status # IN_PROGRESS THEN GAME_NOT_IN_PROGRESS_MESSAGE
          ELSE ApplyMoveError(p, command.row, command.col))
    ELSE INVALID_COMMAND_MESSAGE

\* The catch block: the message of the error the caller gets for the caught value.
Rethrown(error) ==
    IF \/ StrictEqualsString(error, PLAYER_ALREADY_IN_GAME_MESSAGE)
       \/ StrictEqualsString(error, GAME_FULL_MESSAGE)
       \/ StrictEqualsString(error, GAME_NOT_IN_PROGRESS_MESSAGE)
       \/ StrictEqualsString(error, INVALID_COMMAND_MESSAGE)
    THEN error.message
    ELSE UNEXPECTED_ERROR

\* _emitAreaChanged placed before the switch: observers are told on every call.
Notifications_BeforeSwitch(thrown, before, after) == <<before>>

\* The states observers are notified of during one call: _emitAreaChanged runs
\* once, after the switch, when nothing was thrown.
Notifications(thrown, before, after) == IF thrown = OK THEN <<after>> ELSE <<>>

\* The engine call of the command's case, once its checks passed.
EngineEffect(command, p) ==
    IF command.type = "JoinGame" THEN _join(p) /\ players' = Append(players, p)
    ELSE IF command.type = "LeaveGame" THEN _leave(p)
    ELSE RecordMove(p, command.row, command.col)

NO_CALL == "no engine call"

handleCommand(command, p) ==
    LET thrown == TryBlockError(command, p)
        called == EngineCalled(command, p)
    IN /\ pre' = Snapshot
       /\ IF called /\ thrown = OK
          THEN EngineEffect(command, p)
          ELSE UNCHANGED engine
       /\ UNCHANGED area
       /\ last' = [op |-> "handleCommand",
                   command |-> command,
                   player |-> p,
                   engineErr |-> IF called THEN thrown ELSE NO_CALL,
                   err |-> IF thrown = OK THEN OK ELSE Rethrown(ErrorObject(thrown)),
                   notified |-> Notifications(thrown, Snapshot, Snapshot'),
                   gameBefore |-> game,
                   historyBefore |-> history]

\* The area as constructed: no game, or a new engine held in `_game`, whose
\* identifier may contain any of the players' identifiers.
InitArea ==
    /\ status = WAITING_TO_START
    /\ x = Undefined
    /\ o = Undefined
    /\ moves = <<>>
    /\ winner = Undefined
    /\ players = <<>>
    /\ last = [op |-> "constructor", player |-> Undefined, err |-> OK]
    /\ pre = [status |-> WAITING_TO_START, x |-> Undefined, o |-> Undefined, moves |-> <<>>, winner |-> Undefined, players |-> <<>>]
    /\ game \in {NO_GAME, ACTIVE}
    /\ gameIdContains \in (IF game = ACTIVE THEN SUBSET Ids(NumAreaPlayers) ELSE {{}})
    /\ history = <<>>

JoinGame == \E p \in Ids(NumAreaPlayers) : handleCommand([type |-> "JoinGame"], p)
LeaveGame == \E p \in Ids(NumAreaPlayers) : handleCommand([type |-> "LeaveGame"], p)
GameMove == \E p \in Ids(NumAreaPlayers) : \E c \in Cells(NumAreaCells) : handleCommand([type |-> "GameMove", row |-> c[1], col |-> c[2]], p)
OtherCommand == \E p \in Ids(NumAreaPlayers) : handleCommand([type |-> "ViewingAreaUpdate"], p)

NextArea == JoinGame \/ LeaveGame \/ GameMove \/ OtherCommand

SpecArea == InitArea /\ [][NextArea]_vars

\* ---- reading the last call ----
Called(op) == last.op = op
Returned == last.err = OK
Failed(e) == last.err = e
EngineUnchanged == Snapshot = pre

\* The roster member p holds the piece pc in the engine state s.
Holds(s, p, pc) == (pc = "X" /\ p = s.x) \/ (pc = "O" /\ p = s.o)

\* The piece to move on a board of ms recorded moves: X first, then in turn.
ToMove(ms) == IF Len(ms) % 2 = 0 THEN "X" ELSE "O"

\* The last call was made by a player outside the roster.
CallerOutsideRoster == ~InRoster(last.player, pre.players)

\* ---- C1 ----
\* C1: the recorded moves alternate X, O, X, ... starting with X, and an
\* applyMove made in an IN_PROGRESS game by a roster member who holds a piece
\* but not the piece to move fails with MoveNotYourTurn, moves unchanged.
C1_TurnAlternation ==
    /\ \A i \in 1..Len(moves) : moves[i].gamePiece = (IF i % 2 = 1 THEN "X" ELSE "O")
    /\ (/\ Called("applyMove")
        /\ pre.status = IN_PROGRESS
        /\ ~CallerOutsideRoster
        /\ last.player \in {pre.x, pre.o}
        /\ ~Holds(pre, last.player, ToMove(pre.moves)))
       => (Failed(MOVE_NOT_YOUR_TURN_MESSAGE) /\ moves = pre.moves)

\* ---- C2 ----
NoCellTwice == \A i, j \in 1..Len(moves) : (moves[i].row = moves[j].row /\ moves[i].col = moves[j].col) => i = j

TargetsOccupiedCell == Called("applyMove") /\ Occupied(pre.moves, last.row, last.col)

\* C2 as stated: no two recorded moves share a cell, and every applyMove that
\* targets a recorded cell fails with BoardPositionNotEmpty, moves unchanged.
C2_OccupiedAlwaysBoardPositionNotEmpty ==
    /\ NoCellTwice
    /\ TargetsOccupiedCell => (Failed(BOARD_POSITION_NOT_EMPTY_MESSAGE) /\ moves = pre.moves)

\* C2 amended: no two recorded moves share a cell; every applyMove that
\* targets a recorded cell fails and leaves moves unchanged; the failure is
\* BoardPositionNotEmpty when the caller is a roster member holding a piece
\* in an IN_PROGRESS game, and otherwise that of the earlier check that
\* failed (PlayerNotInGame, GameNotInProgress, MoveNotYourTurn in that order).
C2_NoCellTwice ==
    /\ NoCellTwice
    /\ TargetsOccupiedCell =>
         /\ moves = pre.moves
         /\ last.err = (IF CallerOutsideRoster THEN PLAYER_NOT_IN_GAME_MESSAGE
                        ELSE IF pre.status # IN_PROGRESS THEN GAME_NOT_IN_PROGRESS_MESSAGE
                        ELSE IF last.player \notin {pre.x, pre.o} THEN MOVE_NOT_YOUR_TURN_MESSAGE
                        ELSE BOARD_POSITION_NOT_EMPTY_MESSAGE)

\* A roster member of an IN_PROGRESS game targeted a recorded cell after a
\* leave and a join had changed the roster, and got BoardPositionNotEmpty.
C2_Witness ==
    /\ TargetsOccupiedCell
    /\ Failed(BOARD_POSITION_NOT_EMPTY_MESSAGE)
    /\ pre.players # <<pre.x, pre.o>>

\* ---- C3 ----
\* The 8 lines of the board: 3 rows, 3 columns, 2 diagonals.
Lines ==
    {{<<r, c>> : c \in 0..(LineLength - 1)} : r \in 0..(LineLength - 1)}
    \cup {{<<r, c>> : r \in 0..(LineLength - 1)} : c \in 0..(LineLength - 1)}
    \cup {{<<i, i>> : i \in 0..(LineLength - 1)}}
    \cup {{<<i, AntiDiagonalSum - i>> : i \in 0..(LineLength - 1)}}

\* The pieces pc recorded in ms fill one of the 8 lines.
FillsLine(ms, pc) ==
    \E line \in Lines : \A cell \in line :
        \E i \in 1..Len(ms) : ms[i].gamePiece = pc /\ ms[i].row = cell[1] /\ ms[i].col = cell[2]

AllCellsFilled(ms) == Cardinality({<<ms[i].row, ms[i].col>> : i \in 1..Len(ms)}) = BoardSize

\* C3: after a successful applyMove, status is OVER with winner = mover
\* exactly when the mover's pieces fill one of the 8 lines; otherwise, if all
\* 9 cells are filled, status is OVER with no winner; otherwise IN_PROGRESS.
C3_WinTieEvaluation ==
    (Called("applyMove") /\ Returned) =>
        IF FillsLine(moves, moves[Len(moves)].gamePiece)
        THEN status = OVER /\ winner = last.player
        ELSE IF AllCellsFilled(moves)
             THEN status = OVER /\ winner = Undefined
             ELSE status = IN_PROGRESS

\* ---- C4 ----
\* The engine as constructed: nobody has joined yet.
NewEngine(s) == s.x = Undefined
\* Exactly one player has joined the engine since construction, nobody left.
OneJoined(s) == s.x # Undefined /\ s.o = Undefined /\ s.players = <<s.x>>

\* C4: on a new engine the first joiner becomes playerX with status still
\* WAITING_TO_START; the second, distinct, joiner becomes playerO and status
\* becomes IN_PROGRESS; status is IN_PROGRESS only when both slots are set.
C4_FirstXSecondO ==
    /\ status = IN_PROGRESS => (x # Undefined /\ o # Undefined)
    /\ NewEngine(Snapshot) => (status = WAITING_TO_START /\ players = <<>>)
    /\ (Called("join") /\ Returned /\ NewEngine(pre)) =>
         (x = last.player /\ o = Undefined /\ status = WAITING_TO_START /\ players = <<last.player>>)
    /\ (Called("join") /\ Returned /\ OneJoined(pre)) =>
         (/\ last.player # pre.x
          /\ x = pre.x
          /\ o = last.player
          /\ status = IN_PROGRESS
          /\ players = <<pre.x, last.player>>)

\* The second of two distinct players has just joined a new engine.
C4_Witness ==
    /\ Called("join") /\ Returned /\ OneJoined(pre)
    /\ pre.status = WAITING_TO_START
    /\ status = IN_PROGRESS /\ x # o /\ o = last.player

\* ---- C5 ----
\* C5: a join by a roster member fails with PlayerAlreadyInGame, whatever
\* the status and whether the roster holds one or two players.
C5_DuplicateJoinAlreadyInGame ==
    (Called("join") /\ ~CallerOutsideRoster) => Failed(PLAYER_ALREADY_IN_GAME_MESSAGE)

\* ---- C6 ----
\* C6: a join by a player outside a roster of 2 fails with GameFull and
\* changes nothing; the roster holds at most 2 players, all distinct.
C6_GameFull ==
    /\ (Called("join") /\ CallerOutsideRoster /\ Len(pre.players) = RosterCapacity) =>
         (Failed(GAME_FULL_MESSAGE) /\ EngineUnchanged)
    /\ Len(players) <= RosterCapacity
    /\ \A i, j \in 1..Len(players) : players[i] = players[j] => i = j

\* A third player was refused by a full roster.
C6_Witness ==
    /\ Called("join") /\ CallerOutsideRoster /\ Len(pre.players) = RosterCapacity
    /\ Failed(GAME_FULL_MESSAGE)

\* ---- C7 ----
\* C7: a successful leave that leaves exactly one player in the roster sets
\* status to OVER and winner to that player, whatever the status was.
C7_ForfeitWin ==
    (Called("leave") /\ Returned /\ Len(players) = 1) => (status = OVER /\ winner = players[1])

\* One of two players left an IN_PROGRESS game.
C7_Witness ==
    /\ Called("leave") /\ Returned /\ Len(players) = 1
    /\ pre.status = IN_PROGRESS /\ Len(pre.players) = RosterCapacity

\* ---- C8 ----
\* C8: when the only player to have joined a new engine leaves, status is
\* WAITING_TO_START, the roster is empty and no winner is set.
C8_SoleJoinerLeaves ==
    (Called("leave") /\ Returned /\ OneJoined(pre)) =>
        (status = WAITING_TO_START /\ players = <<>> /\ winner = Undefined)

\* The only player to have joined a new engine has just left it.
C8_Witness == Called("leave") /\ Returned /\ OneJoined(pre) /\ last.player = pre.x /\ players = <<>>

\* ---- C9 ----
\* C9 as stated: every applyMove made while status is WAITING_TO_START or
\* OVER fails with GameNotInProgress and appends no move.
C9_AlwaysGameNotInProgress ==
    (Called("applyMove") /\ pre.status # IN_PROGRESS) =>
        (Failed(GAME_NOT_IN_PROGRESS_MESSAGE) /\ moves = pre.moves)

\* C9 amended: applyMove succeeds only when status is IN_PROGRESS; made while
\* status is WAITING_TO_START or OVER it fails and appends no move, with
\* GameNotInProgress when the caller is in the roster and PlayerNotInGame
\* when the caller is not.
C9_OnlyInProgress ==
    /\ (Called("applyMove") /\ Returned) => pre.status = IN_PROGRESS
    /\ (Called("applyMove") /\ pre.status # IN_PROGRESS) =>
         /\ moves = pre.moves
         /\ last.err = (IF CallerOutsideRoster THEN PLAYER_NOT_IN_GAME_MESSAGE ELSE GAME_NOT_IN_PROGRESS_MESSAGE)

\* A roster member holding a piece offered a free cell to a game that is
\* OVER and was refused with GameNotInProgress.
C9_Witness ==
    /\ Called("applyMove") /\ pre.status = OVER
    /\ last.player \in {pre.x, pre.o} /\ ~CallerOutsideRoster
    /\ ~Occupied(pre.moves, last.row, last.col)
    /\ Failed(GAME_NOT_IN_PROGRESS_MESSAGE)

\* ---- C10 ----
\* C10: an applyMove or a leave by a player outside the roster fails with
\* PlayerNotInGame and changes no field of the engine.
C10_PlayerNotInGame ==
    ((Called("applyMove") \/ Called("leave")) /\ CallerOutsideRoster) =>
        (Failed(PLAYER_NOT_IN_GAME_MESSAGE) /\ EngineUnchanged)

\* A player who holds a slot but has left the roster tried to leave again.
C10_Witness ==
    /\ Called("leave") /\ CallerOutsideRoster
    /\ last.player \in {pre.x, pre.o}
    /\ Failed(PLAYER_NOT_IN_GAME_MESSAGE)

\* ---- C11 ----
\* C11: OVER is terminal: no join, leave or applyMove made while status is
\* OVER changes status to WAITING_TO_START or IN_PROGRESS.
C11_OverIsTerminal == pre.status = OVER => status = OVER

\* ---- C12 ----
\* C12: playerX, when set, is the identifier of a player in the roster, and
\* likewise playerO.
C12_SlotsDrawnFromRoster ==
    /\ x # Undefined => InRoster(x, players)
    /\ o # Undefined => InRoster(o, players)

\* ---- C18 ----
\* The fewest moves a game can hold when a piece fills a line in turn order.
MinMovesToWin == 2 * LineLength - 1

\* C18 (under SpecGame: two joins on a new engine, then moves only): status
\* is OVER no earlier than the 5th successful applyMove and no later than the
\* 9th; once moves has 9 entries status is OVER.
C18_BoundedEndOfGame ==
    /\ Len(moves) <= BoardSize
    /\ Len(moves) = BoardSize => status = OVER
    /\ status = OVER => Len(moves) >= MinMovesToWin

\* ---- C19 ----
\* C19: a join, leave or applyMove that fails, with any error, leaves status,
\* playerX, playerO, moves, winner and the roster as they were.
C19_FailureAtomicity ==
    ((Called("join") \/ Called("leave") \/ Called("applyMove")) /\ ~Returned) => EngineUnchanged

\* A roster member holding a piece was refused an occupied cell by the last
\* of applyMove's checks.
C19_Witness ==
    /\ Called("applyMove")
    /\ Failed(BOARD_POSITION_NOT_EMPTY_MESSAGE)
    /\ pre.moves # <<>>

\* ---- C20 ----
\* The board bs is finished: a piece fills a line, or all 9 cells are filled.
Finished(bs) == FillsLine(bs, "X") \/ FillsLine(bs, "O") \/ AllCellsFilled(bs)

\* C20: applyMove never appends a move to a finished board, whatever joins
\* and leaves happened after the game ended.
C20_NoPlayPastFinishedBoard ==
    (Called("applyMove") /\ Returned) => ~Finished(pre.moves)

\* ---- reading the last handleCommand call ----
Handled(type) == Called("handleCommand") /\ last.command.type = type
AreaUnchanged == game = last.gameBefore /\ history = last.historyBefore

\* ---- C13 ----
\* C13: after every successful JoinGame, also one received while the area
\* held no engine, an active engine exists and the requesting player is in
\* its roster.
C13_JoinGameCreatesEngine ==
    (Handled("JoinGame") /\ Returned) => (game = ACTIVE /\ InRoster(last.player, players))

\* ---- C14 ----
RuleViolationKinds ==
    {PLAYER_ALREADY_IN_GAME_MESSAGE, GAME_FULL_MESSAGE, PLAYER_NOT_IN_GAME_MESSAGE,
     GAME_NOT_IN_PROGRESS_MESSAGE, MOVE_NOT_YOUR_TURN_MESSAGE, BOARD_POSITION_NOT_EMPTY_MESSAGE}

\* C14: whenever the engine call made by handleCommand fails with one of the
\* rule-violation kinds, handleCommand fails to its caller with that same
\* kind, never with the generic failure and never with success.
C14_EngineFailurePropagated ==
    (Called("handleCommand") /\ last.engineErr \in RuleViolationKinds) => last.err = last.engineErr

\* ---- C15 ----
\* C15: a handleCommand call that returns notifies the observers exactly
\* once, of the state after the engine's mutation; one that fails notifies
\* nobody.
C15_NotifiedOncePerSuccess ==
    Called("handleCommand") => last.notified = (IF Returned THEN <<Snapshot>> ELSE <<>>)

\* A command changed the engine and the observers were told once, of the new state.
C15_Witness ==
    /\ Called("handleCommand") /\ Returned
    /\ Snapshot # pre
    /\ last.notified = <<Snapshot>>

\* ---- C16 ----
\* The last command moved the active engine's status into OVER.
MovedIntoOver == Called("handleCommand") /\ Returned /\ pre.status # OVER /\ status = OVER

\* C16: a command that moves the engine's status into OVER appends exactly
\* one history entry; every other command, and every failed one, appends
\* nothing.
C16_HistoryPerCompletedGame ==
    Called("handleCommand") =>
        IF MovedIntoOver
        THEN Len(history) = Len(last.historyBefore) + 1 /\ SubSeq(history, 1, Len(last.historyBefore)) = last.historyBefore
        ELSE history = last.historyBefore

\* ---- C17 ----
\* C17: a command of a kind other than JoinGame, LeaveGame and GameMove fails
\* with InvalidCommand, changes neither the area nor the engine and notifies
\* nobody, every time it is sent.
C17_UnknownCommandInvalid ==
    (Called("handleCommand") /\ last.command.type \notin {"JoinGame", "LeaveGame", "GameMove"}) =>
        (/\ Failed(INVALID_COMMAND_MESSAGE)
         /\ EngineUnchanged
         /\ AreaUnchanged
         /\ last.notified = <<>>)
====
